---- MODULE Spec2Model ----
(***************************************************************************)
(* A model of the BBC weather scraper (src/src/services/BBCWeatherScraper.ts *)
(* and its copies in src/src/index.ts and src/unnamed/part_000).            *)
(*                                                                         *)
(* Text is a sequence of one-character strings, so that trim, split and     *)
(* slice are computed character by character as the JavaScript does.        *)
(* A cheerio selection is the sequence of the texts of the elements it      *)
(* matched: the empty sequence when the selector matches nothing.           *)
(***************************************************************************)
EXTENDS Integers, Sequences, FiniteSets, TLC

\* ------------------------------------------------------------------ bounds

\* Longest text of the location-name element that is enumerated.
MaxLocLen == 7
\* Longest raw temperature text that is enumerated.
MaxTokLen == 4
\* Most forecast-day list items in an enumerated page.
MaxItems == 8
\* Number of concurrent calls of the orchestration model.
NumCalls == 2

\* --------------------------------------------------------- program constants

\* BBCWeatherScraper.ts:137, `if (index >= 7) return null`
MaxDays == 7
\* BBCWeatherScraper.ts:182, the width of `tempText.slice(0, 3)`
HighWidth == 3

BBC_WEATHER_BASE_URL == "https://www.bbc.com/weather/"

CityKeys == {"cairo", "mecca", "abuDhabi", "london", "newYork", "brasilia"}

CITIES_TABLE ==
  [k \in CityKeys |->
     CASE k = "cairo"    -> "360630"
       [] k = "mecca"    -> "104515"
       [] k = "abuDhabi" -> "292968"
       [] k = "london"   -> "2643743"
       [] k = "newYork"  -> "5128581"
       [] k = "brasilia" -> "3469058"]

\* ------------------------------------------------------------------- text

Min(a, b) == IF a < b THEN a ELSE b

AllSeqs(S, n) == UNION {[1..k -> S] : k \in 0..n}

\* String.prototype.trim's white space, as far as the enumerated alphabets go.
IsWhiteSpace(c) == c = " "

RECURSIVE TrimStart(_)
TrimStart(s) ==
  IF s # <<>> /\ IsWhiteSpace(Head(s)) THEN TrimStart(Tail(s)) ELSE s

RECURSIVE TrimEnd(_)
TrimEnd(s) ==
  IF s # <<>> /\ IsWhiteSpace(s[Len(s)])
  THEN TrimEnd(SubSeq(s, 1, Len(s) - 1))
  ELSE s

\* String.prototype.trim
Trim(s) == TrimEnd(TrimStart(s))

\* The 1-based positions at which sep occurs in s.
Occurrences(s, sep) ==
  {i \in 1..(Len(s) - Len(sep) + 1) : SubSeq(s, i, i + Len(sep) - 1) = sep}

SetMin(S) == CHOOSE x \in S : \A y \in S : x <= y
SetMax(S) == CHOOSE x \in S : \A y \in S : x >= y

\* s.split(sep)[0]: the text before the first occurrence of sep, all of s
\* when sep does not occur.
SplitLastHead(s, sep) ==
  IF Occurrences(s, sep) = {} THEN s
  ELSE SubSeq(s, 1, SetMax(Occurrences(s, sep)) - 1)

SplitHead(s, sep) ==
  IF Occurrences(s, sep) = {} THEN s
  ELSE SubSeq(s, 1, SetMin(Occurrences(s, sep)) - 1)

\* a || b on strings: the empty string is the only falsy string.
OrElse(a, b) == IF a # <<>> THEN a ELSE b

\* s.slice(from, to) and s.slice(from) for 0 <= from <= to.
Slice(s, from, to) == SubSeq(s, from + 1, Min(to, Len(s)))
SliceFrom(s, from) == SubSeq(s, from + 1, Len(s))

\* ------------------------------------------------------------------- DOM

\* .text() of a selection: the texts of the matched elements, concatenated.
RECURSIVE TextOf(_)
TextOf(sel) == IF sel = <<>> THEN <<>> ELSE Head(sel) \o TextOf(Tail(sel))

\* The separator of the location text.
Separator == <<" ", "-", " ">>

\* $('#wr-location-name-id')
SelectLocationName(html) == html.loc

\* The list items of any list, under the carousel list or not.
SelectDayCarouselAnyList(html) == html.items

\* $('ol.wr-day-carousel__list li'): the list items, in document order, when
\* they are under the carousel list.
SelectDayCarousel(html) == IF html.carousel THEN html.items ELSE <<>>

\* FindUnderAnchor with a selector that does not name the anchor's index.
FindUnderAnyAnchor(elem, index, field) ==
  IF elem.anchor >= 0 THEN elem[field] ELSE <<>>

\* $elem.find(`a#daylink-${index} <field selector>`): the field's elements
\* under the item's anchor, when that anchor's id carries this index.
FindUnderAnchor(elem, index, field) ==
  IF elem.anchor = index THEN elem[field] ELSE <<>>

\* ------------------------------------------------------------ extraction

\* parseTemperature with today's entry split like the other days' entries.
parseTemperatureTodaySplit(tempText, index) ==
  IF tempText = <<>> THEN [highTemp |-> <<>>, lowTemp |-> <<>>]
  ELSE [highTemp |-> Slice(tempText, 0, HighWidth),
        lowTemp  |-> OrElse(SliceFrom(tempText, HighWidth),
                            Slice(tempText, 0, HighWidth))]

\* parseTemperature without the fallback to the high reading.
parseTemperatureNoFallback(tempText, index) ==
  IF tempText = <<>> THEN [highTemp |-> <<>>, lowTemp |-> <<>>]
  ELSE IF index = 0
       THEN [highTemp |-> Slice(tempText, 0, HighWidth),
             lowTemp  |-> Slice(tempText, 0, HighWidth)]
       ELSE [highTemp |-> Slice(tempText, 0, HighWidth),
             lowTemp  |-> SliceFrom(tempText, HighWidth)]

parseTemperature(tempText, index) ==
  IF tempText = <<>> THEN [highTemp |-> <<>>, lowTemp |-> <<>>]
  ELSE IF index = 0
       THEN [highTemp |-> Slice(tempText, 0, HighWidth),
             lowTemp  |-> Slice(tempText, 0, HighWidth)]
       ELSE [highTemp |-> Slice(tempText, 0, HighWidth),
             lowTemp  |-> OrElse(SliceFrom(tempText, HighWidth),
                                 Slice(tempText, 0, HighWidth))]

extractDayDetails(elem, index) ==
  LET day           == Trim(TextOf(FindUnderAnchor(elem, index, "title")))
      shortForecast == Trim(TextOf(FindUnderAnchor(elem, index, "desc")))
      temperature   == Trim(TextOf(FindUnderAnchor(elem, index, "temp")))
      hl            == parseTemperature(temperature, index)
  IN  [day |-> day, shortForecast |-> shortForecast,
       temperature |-> temperature,
       highTemp |-> hl.highTemp, lowTemp |-> hl.lowTemp]

\* The .map callback over the selection, from the i-th element on: a null
\* result is left out of the mapped selection (and .filter drops none more).
RECURSIVE MapDays(_, _)
MapDays(elems, i) ==
  IF i > Len(elems) THEN <<>>
  ELSE (IF i - 1 >= MaxDays THEN <<>>
        ELSE <<extractDayDetails(elems[i], i - 1)>>)
       \o MapDays(elems, i + 1)

\* The .map callback without the limit of seven days.
RECURSIVE MapDaysNoLimit(_, _)
MapDaysNoLimit(elems, i) ==
  IF i > Len(elems) THEN <<>>
  ELSE <<extractDayDetails(elems[i], i - 1)>> \o MapDaysNoLimit(elems, i + 1)

extractWeeklyForecastNoLimit(html) == MapDaysNoLimit(SelectDayCarousel(html), 1)

extractWeeklyForecast(html) == MapDays(SelectDayCarousel(html), 1)

\* extractCityName splitting at the last separator instead of the first.
extractCityNameLastSeparator(html) ==
  LET fullLocationText == Trim(TextOf(SelectLocationName(html)))
  IN  OrElse(SplitLastHead(fullLocationText, Separator), fullLocationText)

extractCityName(html) ==
  LET fullLocationText == Trim(TextOf(SelectLocationName(html)))
  IN  OrElse(SplitHead(fullLocationText, Separator), fullLocationText)

parseWeatherData(html) ==
  [city |-> extractCityName(html), weekList |-> extractWeeklyForecast(html)]

\* ---- the legacy getCairoWeather's own, inline extraction

\* The .map callback of getCairoWeather with today's low reading taken from
\* the rest of the token, as for the other days.
legacyDayDetailsTodaySplit(elem, i) ==
  LET tempText == Trim(TextOf(FindUnderAnchor(elem, i, "temp")))
      high     == Slice(tempText, 0, HighWidth)
  IN  [day |-> Trim(TextOf(FindUnderAnchor(elem, i, "title"))),
       shortForecast |-> Trim(TextOf(FindUnderAnchor(elem, i, "desc"))),
       temperature |-> tempText,
       highTemp |-> IF tempText # <<>> THEN high ELSE <<>>,
       lowTemp |-> IF tempText # <<>>
                   THEN OrElse(SliceFrom(tempText, HighWidth), high)
                   ELSE <<>>]

\* The .map callback of getCairoWeather for the item at position i < 7.
legacyDayDetails(elem, i) ==
  LET tempText == Trim(TextOf(FindUnderAnchor(elem, i, "temp")))
      high     == Slice(tempText, 0, HighWidth)
  IN  [day |-> Trim(TextOf(FindUnderAnchor(elem, i, "title"))),
       shortForecast |-> Trim(TextOf(FindUnderAnchor(elem, i, "desc"))),
       temperature |-> tempText,
       highTemp |-> IF tempText # <<>> THEN high ELSE <<>>,
       lowTemp |-> IF tempText # <<>>
                   THEN (IF i = 0 THEN high
                         ELSE OrElse(SliceFrom(tempText, HighWidth), high))
                   ELSE <<>>]

RECURSIVE legacyMap(_, _)
legacyMap(elems, n) ==
  IF n > Len(elems) THEN <<>>
  ELSE (IF n - 1 >= MaxDays THEN <<>> ELSE <<legacyDayDetails(elems[n], n - 1)>>)
       \o legacyMap(elems, n + 1)

\* The details object getCairoWeather builds from the loaded document.
getCairoDetails(html) ==
  LET cityAndShortForecast ==
        SplitHead(Trim(TextOf(SelectLocationName(html))), Separator)
  IN  [city |-> cityAndShortForecast,
       weekList |-> legacyMap(SelectDayCarousel(html), 1)]

\* ------------------------------------------------- the extraction, run alone

VARIABLES
  page,     \* the markup handed to parseWeatherData
  parsed,   \* <<>> before the call, <<report>> once it has returned
  legacyParsed  \* <<>> before getCairoWeather's body has run on the page,
                \* then <<v>>: v is <<>> (undefined) or <<details>>

LocChars == {"L", " ", "-"}
TempChars == {"1", "2", " "}

Element(text) == <<text>>
NoElement == <<>>

GoodItem(k, token) ==
  [anchor |-> k, title |-> Element(<<"d">>), desc |-> Element(<<"s">>),
   temp |-> Element(token)]

EmptyPage == [loc |-> NoElement, carousel |-> TRUE, items |-> <<>>]

\* Pages that vary the text of the location-name element.
LocationPages ==
  {[loc |-> l, carousel |-> TRUE, items |-> <<>>] :
     l \in {NoElement} \cup {Element(t) : t \in AllSeqs(LocChars, MaxLocLen)}}

\* The same location texts on pages that have one forecast day.
LocationDayPages ==
  {[loc |-> l, carousel |-> TRUE, items |-> <<GoodItem(0, <<"1", "2">>)>>] :
     l \in {NoElement} \cup {Element(t) : t \in AllSeqs(LocChars, MaxLocLen)}}

\* Pages that vary the raw temperature text of the item at position 0, and
\* of the item at position 1.
TemperaturePages ==
  {[loc |-> NoElement, carousel |-> TRUE, items |-> <<GoodItem(0, t)>>] :
     t \in AllSeqs(TempChars, MaxTokLen)}
  \cup
  {[loc |-> NoElement, carousel |-> TRUE,
    items |-> <<GoodItem(0, <<"1", "2">>), GoodItem(1, t)>>] :
     t \in AllSeqs(TempChars, MaxTokLen)}

\* Pages that vary which anchors are there, in up to two items.
ItemShapes(k) ==
  {[anchor |-> a, title |-> ti, desc |-> de, temp |-> te] :
     a \in {-1, k, k + 1},
     ti \in {NoElement, Element(<<"d">>)},
     de \in {NoElement, Element(<<"s">>)},
     te \in {NoElement, Element(<<"1", "2", "2", "1">>)}}

AnchorPages ==
  {[loc |-> l, carousel |-> c, items |-> its] :
     l \in {NoElement, Element(<<"L", " ", "-", " ", "L">>)},
     c \in BOOLEAN,
     its \in {<<>>} \cup {<<a>> : a \in ItemShapes(0)}
             \cup {<<a, b>> : a \in ItemShapes(0), b \in ItemShapes(1)}}

\* Pages that vary the number of list items, each item one of two tokens.
ListTokens == {<<"1", "1">>, <<"2", " ", "1", "2">>}

ListPages ==
  {[loc |-> Element(<<"L">>), carousel |-> TRUE,
    items |-> [k \in 1..n |-> GoodItem(k - 1, f[k])]] :
     n \in 0..MaxItems, f \in [1..MaxItems -> ListTokens]}

ExtractInit ==
  /\ page \in LocationPages \cup LocationDayPages \cup TemperaturePages
             \cup AnchorPages \cup ListPages
  /\ parsed = <<>>
  /\ legacyParsed = <<>>

\* ------------------------------------------------------- the orchestration

VARIABLES
  CITIES,     \* the city catalog
  pc,         \* per call: "idle", "awaiting", "returned", "threw", "done"
  entry,      \* per call: "none", "fetch" (fetchCityWeather called directly),
              \*           "log" (called through logWeatherForCity)
  cityCode,   \* per call: the city identifier supplied
  requests,   \* per call: the URLs of the GETs issued, in order
  answer,     \* per call: <<>> or <<what the transport answered>>
  result,     \* per call: <<>> or <<the report fetchCityWeather resolved to>>
  thrown,     \* per call: <<>> or <<the error fetchCityWeather rejected with>>
  console,    \* per call: the console entries the call wrote, in order
  logPromise, \* per call: the promise of logWeatherForCity:
              \*           "none", "pending", "resolved", "rejected"
  cairoPromise, \* per call: the promise of getCairoWeather, likewise
  cairoValue  \* per call: what that promise resolved to: <<>> (undefined)
              \*           or <<details>>

extractVars == <<page, parsed, legacyParsed>>
legacyVars == <<cairoPromise, cairoValue>>
callVars == <<CITIES, pc, entry, cityCode, requests, answer, result, thrown,
              console, logPromise, cairoPromise, cairoValue>>
vars == <<page, parsed, legacyParsed, CITIES, pc, entry, cityCode, requests,
          answer, result, thrown, console, logPromise, cairoPromise, cairoValue>>

Calls == 1..NumCalls

\* A city identifier outside the catalog, as an untyped caller can pass.
UnknownCities == {"paris"}
CityInputs == CityKeys \cup UnknownCities

\* CITIES[cityCode]: <<>> stands for undefined.
CitiesGet(cat, k) == IF k \in DOMAIN cat THEN <<cat[k]>> ELSE <<>>

\* `${v}` of a template literal: undefined prints as "undefined".
TemplateString(v) == IF v = <<>> THEN "undefined" ELSE v[1]

\* The URL built from the city identifier itself instead of its code.
BuildUrlKey(cat, k) == BBC_WEATHER_BASE_URL \o k

\* `${BBC_WEATHER_BASE_URL}${CITIES[cityCode]}`

BuildUrl(cat, k) == BBC_WEATHER_BASE_URL \o TemplateString(CitiesGet(cat, k))

\* ---- the environment: what the weather site serves

Txt(c) == Element(<<c, " ", "-", " ", "W">>)

Days(n, token) == [k \in 1..n |-> GoodItem(k - 1, token)]

\* The page of each location code: the pages differ in every part.
SitePage(code) ==
  CASE code = "360630"  -> [loc |-> Txt("C"), carousel |-> TRUE,
                            items |-> Days(2, <<"1", "2">>)]
    [] code = "104515"  -> [loc |-> Txt("M"), carousel |-> FALSE,
                            items |-> Days(1, <<"2">>)]
    [] code = "292968"  -> [loc |-> NoElement, carousel |-> TRUE,
                            items |-> Days(1, <<"2", "2", "2", "1">>)]
    [] code = "2643743" -> [loc |-> Txt("L"), carousel |-> TRUE,
                            items |-> Days(3, <<"1", "1", "1", "2">>)]
    [] code = "5128581" -> [loc |-> Txt("N"), carousel |-> TRUE,
                            items |-> Days(MaxDays + 1, <<"1">>)]
    [] code = "3469058" -> [loc |-> Element(<<"B">>), carousel |-> TRUE,
                            items |-> <<>>]

SiteCodes == {"360630", "104515", "292968", "2643743", "5128581", "3469058"}
SiteUrls == {BBC_WEATHER_BASE_URL \o code : code \in SiteCodes}

PageAt(url) ==
  SitePage(CHOOSE code \in SiteCodes : BBC_WEATHER_BASE_URL \o code = url)

\* response.data: the body as text, or (a JSON body, which axios parses)
\* something that is not a string.
TextData(html) == [isText |-> TRUE, html |-> html]
NonTextData == [isText |-> FALSE, html |-> EmptyPage]

\* An error object; req tells the transport errors of different requests apart.
AxiosError(c, msg) == [isAxiosError |-> TRUE, isError |-> TRUE, message |-> msg, req |-> c]
PlainError(c, msg) == [isAxiosError |-> FALSE, isError |-> TRUE, message |-> msg, req |-> c]

NoAnswer == <<>>
Fulfilled(data) == <<[ok |-> TRUE, data |-> data, error |-> PlainError(0, "")]>>
Rejected(err) == <<[ok |-> FALSE, data |-> NonTextData, error |-> err]>>

\* A console entry.
Line(stream, label, errs, reps) ==
  [stream |-> stream, label |-> label, errors |-> errs, reports |-> reps]

\* handleError taking every error for a transport error.
handleErrorNetworkOnly(error) ==
  Line("error", "Network Error:", <<error>>, <<>>)

\* handleError: the label the error is logged under.
handleError(error) ==
  IF error.isAxiosError THEN Line("error", "Network Error:", <<error>>, <<>>)
  ELSE IF error.isError THEN Line("error", "Parsing Error:", <<error>>, <<>>)
  ELSE Line("error", "Unknown Error:", <<error>>, <<>>)

\* cheerio.load(html), then the extraction: the report, or the error that
\* load raises on content that is not a string.
TryParse(c, data) ==
  IF data.isText
  THEN [ok |-> TRUE, report |-> parseWeatherData(data.html),
        error |-> PlainError(0, "")]
  ELSE [ok |-> FALSE, report |-> parseWeatherData(EmptyPage),
        error |-> PlainError(c, "cheerio.load() expects a string")]

CallInit ==
  /\ CITIES = CITIES_TABLE
  /\ pc = [c \in Calls |-> "idle"]
  /\ entry = [c \in Calls |-> "none"]
  /\ cityCode = [c \in Calls |-> ""]
  /\ requests = [c \in Calls |-> <<>>]
  /\ answer = [c \in Calls |-> NoAnswer]
  /\ result = [c \in Calls |-> <<>>]
  /\ thrown = [c \in Calls |-> <<>>]
  /\ console = [c \in Calls |-> <<>>]
  /\ logPromise = [c \in Calls |-> "none"]
  /\ cairoPromise = [c \in Calls |-> "none"]
  /\ cairoValue = [c \in Calls |-> <<>>]

\* fetchCityWeather(k) up to its await: the URL is built and the GET issued.
StartFetch(c, k, how) ==
  /\ pc[c] = "idle"
  /\ pc' = [pc EXCEPT ![c] = "awaiting"]
  /\ entry' = [entry EXCEPT ![c] = how]
  /\ cityCode' = [cityCode EXCEPT ![c] = k]
  /\ requests' = [requests EXCEPT ![c] = Append(@, BuildUrl(CITIES, k))]
  /\ logPromise' = [logPromise EXCEPT ![c] = IF how = "log" THEN "pending" ELSE "none"]
  /\ UNCHANGED <<CITIES, answer, result, thrown, console>>
  /\ UNCHANGED extractVars
  /\ UNCHANGED legacyVars

\* A direct call of BBCWeatherScraper.fetchCityWeather.
CallFetchCityWeather(c, k) == StartFetch(c, k, "fetch")

\* A call of logWeatherForCity, which calls fetchCityWeather at once.
CallLogWeatherForCity(c, k) == StartFetch(c, k, "log")

\* GetFulfilled reading the response through a variable all calls share: the
\* body parsed is the one of any call whose GET is in flight.
GetFulfilledShared(c) ==
  /\ pc[c] = "awaiting"
  /\ requests[c][Len(requests[c])] \in SiteUrls
  /\ \E d \in Calls :
       /\ pc[d] = "awaiting"
       /\ requests[d][Len(requests[d])] \in SiteUrls
       /\ answer' = [answer EXCEPT ![c] =
            Fulfilled(TextData(PageAt(requests[c][Len(requests[c])])))]
       /\ result' = [result EXCEPT ![c] =
            <<parseWeatherData(PageAt(requests[d][Len(requests[d])]))>>]
       /\ pc' = [pc EXCEPT ![c] = "returned"]
  /\ UNCHANGED <<thrown, console>>
  /\ UNCHANGED <<CITIES, entry, cityCode, requests, logPromise>>
  /\ UNCHANGED extractVars
  /\ UNCHANGED legacyVars

\* The GET is fulfilled (a 2xx status): fetchCityWeather parses the body and
\* returns the report, or logs and rethrows what the parse raised.
GetFulfilled(c) ==
  /\ pc[c] = "awaiting"
  /\ requests[c][Len(requests[c])] \in SiteUrls
  /\ \E data \in {TextData(PageAt(requests[c][Len(requests[c])])), NonTextData} :
       LET p == TryParse(c, data) IN
       /\ answer' = [answer EXCEPT ![c] = Fulfilled(data)]
       /\ IF p.ok
          THEN /\ result' = [result EXCEPT ![c] = <<p.report>>]
               /\ pc' = [pc EXCEPT ![c] = "returned"]
               /\ UNCHANGED <<thrown, console>>
          ELSE /\ console' = [console EXCEPT ![c] = Append(@, handleError(p.error))]
               /\ thrown' = [thrown EXCEPT ![c] = <<p.error>>]
               /\ pc' = [pc EXCEPT ![c] = "threw"]
               /\ UNCHANGED result
  /\ UNCHANGED <<CITIES, entry, cityCode, requests, logPromise>>
  /\ UNCHANGED extractVars
  /\ UNCHANGED legacyVars

\* How a GET of the URL can fail: the site has no page at an unknown URL and
\* answers 404; the connection to a page it has can fail.
FailuresAt(url) ==
  IF url \in SiteUrls THEN {"connect ECONNREFUSED"}
  ELSE {"Request failed with status code 404"}

\* GetRejected issuing the GET once more before giving up.
GetRejectedRetry(c) ==
  /\ pc[c] = "awaiting"
  /\ \E msg \in FailuresAt(requests[c][Len(requests[c])]) :
       LET e == AxiosError(c, msg) IN
       /\ answer' = [answer EXCEPT ![c] = Rejected(e)]
       /\ console' = [console EXCEPT ![c] = Append(@, handleError(e))]
       /\ IF Len(requests[c]) < 2
          THEN /\ requests' = [requests EXCEPT ![c] = Append(@, @[1])]
               /\ UNCHANGED <<thrown, pc>>
          ELSE /\ thrown' = [thrown EXCEPT ![c] = <<e>>]
               /\ pc' = [pc EXCEPT ![c] = "threw"]
               /\ UNCHANGED requests
  /\ UNCHANGED <<CITIES, entry, cityCode, result, logPromise>>
  /\ UNCHANGED extractVars
  /\ UNCHANGED legacyVars

\* The GET is rejected (no connection, or a status that is not 2xx):
\* fetchCityWeather logs the error and rethrows it.
GetRejected(c) ==
  /\ pc[c] = "awaiting"
  /\ \E msg \in FailuresAt(requests[c][Len(requests[c])]) :
       LET e == AxiosError(c, msg) IN
       /\ answer' = [answer EXCEPT ![c] = Rejected(e)]
       /\ console' = [console EXCEPT ![c] = Append(@, handleError(e))]
       /\ thrown' = [thrown EXCEPT ![c] = <<e>>]
       /\ pc' = [pc EXCEPT ![c] = "threw"]
  /\ UNCHANGED <<CITIES, entry, cityCode, requests, result, logPromise>>
  /\ UNCHANGED extractVars
  /\ UNCHANGED legacyVars

\* LogReport with the summary outside the try block: the TypeError of an
\* absent first day escapes.
LogReportEscapes(c) ==
  /\ pc[c] = "returned"
  /\ entry[c] = "log"
  /\ LET weatherReport == result[c][1]
         full == Line("log", "Weather Report:", <<>>, <<weatherReport>>)
     IN  IF weatherReport.weekList # <<>>
         THEN /\ console' = [console EXCEPT ![c] =
                   @ \o <<full, Line("log", "City:", <<>>, <<weatherReport>>)>>]
              /\ logPromise' = [logPromise EXCEPT ![c] = "resolved"]
         ELSE /\ console' = [console EXCEPT ![c] = Append(@, full)]
              /\ logPromise' = [logPromise EXCEPT ![c] = "rejected"]
  /\ pc' = [pc EXCEPT ![c] = "done"]
  /\ UNCHANGED <<CITIES, entry, cityCode, requests, answer, result, thrown>>
  /\ UNCHANGED extractVars
  /\ UNCHANGED legacyVars

\* logWeatherForCity after its await returned a report: the report is
\* printed, then the first day's summary; reading a field of an absent first
\* day raises a TypeError, which the catch block logs.
LogReport(c) ==
  /\ pc[c] = "returned"
  /\ entry[c] = "log"
  /\ LET weatherReport == result[c][1]
         full == Line("log", "Weather Report:", <<>>, <<weatherReport>>)
     IN  IF weatherReport.weekList # <<>>
         THEN console' = [console EXCEPT ![c] =
                 @ \o <<full, Line("log", "City:", <<>>, <<weatherReport>>)>>]
         ELSE console' = [console EXCEPT ![c] =
                 @ \o <<full,
                        Line("error", "Failed to fetch weather for",
                             <<PlainError(c, "Cannot read properties of undefined")>>,
                             <<>>)>>]
  /\ logPromise' = [logPromise EXCEPT ![c] = "resolved"]
  /\ pc' = [pc EXCEPT ![c] = "done"]
  /\ UNCHANGED <<CITIES, entry, cityCode, requests, answer, result, thrown>>
  /\ UNCHANGED extractVars
  /\ UNCHANGED legacyVars

\* LogFailure printing a report of defaults instead of logging the failure.
LogFailureDefaultReport(c) ==
  /\ pc[c] = "threw"
  /\ entry[c] = "log"
  /\ console' = [console EXCEPT ![c] =
        Append(@, Line("log", "Weather Report:", <<>>, <<parseWeatherData(EmptyPage)>>))]
  /\ logPromise' = [logPromise EXCEPT ![c] = "resolved"]
  /\ pc' = [pc EXCEPT ![c] = "done"]
  /\ UNCHANGED <<CITIES, entry, cityCode, requests, answer, result, thrown>>
  /\ UNCHANGED extractVars
  /\ UNCHANGED legacyVars

\* logWeatherForCity after its await threw: the catch block logs the error
\* and the function ends normally.
LogFailure(c) ==
  /\ pc[c] = "threw"
  /\ entry[c] = "log"
  /\ console' = [console EXCEPT ![c] =
        Append(@, Line("error", "Failed to fetch weather for", <<thrown[c][1]>>, <<>>))]
  /\ logPromise' = [logPromise EXCEPT ![c] = "resolved"]
  /\ pc' = [pc EXCEPT ![c] = "done"]
  /\ UNCHANGED <<CITIES, entry, cityCode, requests, answer, result, thrown>>
  /\ UNCHANGED extractVars
  /\ UNCHANGED legacyVars

\* ---- the legacy getCairoWeather

\* getCairoWeather after its GET was fulfilled: what the try block does with
\* response.data. The document is loaded, the details are built and two
\* lines are logged from the first day; an error raised on the way (load
\* refusing the content, or reading a field of an absent first day) is caught
\* and logged, and the function then returns nothing.
getCairoWeatherBody(c, data) ==
  IF ~data.isText
  THEN [value |-> <<>>,
        lines |-> <<Line("error", "ERROR",
                         <<PlainError(c, "cheerio.load() expects a string")>>, <<>>)>>]
  ELSE LET details == getCairoDetails(data.html) IN
       IF details.weekList = <<>>
       THEN [value |-> <<>>,
             lines |-> <<Line("error", "ERROR",
                              <<PlainError(c, "Cannot read properties of undefined")>>,
                              <<>>)>>]
       ELSE [value |-> <<details>>,
             lines |-> <<Line("log", "City: ", <<>>, <<details>>),
                         Line("log", "Hight: ", <<>>, <<details>>)>>]

\* The bodies the site can answer getCairoWeather's GET with: its page, the
\* page after the site dropped the carousel list, or a body that is no text.
CairoBodies(url) ==
  {TextData(PageAt(url)),
   TextData([PageAt(url) EXCEPT !.carousel = FALSE]),
   NonTextData}

\* A call of getCairoWeather, up to its await: the GET of Abu Dhabi's page.
CallGetCairoWeather(c) ==
  /\ pc[c] = "idle"
  /\ pc' = [pc EXCEPT ![c] = "awaitingCairo"]
  /\ entry' = [entry EXCEPT ![c] = "legacy"]
  /\ cityCode' = [cityCode EXCEPT ![c] = "abuDhabi"]
  /\ requests' = [requests EXCEPT ![c] =
        Append(@, BBC_WEATHER_BASE_URL \o CITIES["abuDhabi"])]
  /\ cairoPromise' = [cairoPromise EXCEPT ![c] = "pending"]
  /\ UNCHANGED <<CITIES, answer, result, thrown, console, logPromise, cairoValue>>
  /\ UNCHANGED extractVars

\* getCairoWeather after its GET was fulfilled.
CairoFulfilled(c) ==
  /\ pc[c] = "awaitingCairo"
  /\ \E data \in CairoBodies(requests[c][Len(requests[c])]) :
       LET b == getCairoWeatherBody(c, data) IN
       /\ answer' = [answer EXCEPT ![c] = Fulfilled(data)]
       /\ console' = [console EXCEPT ![c] = @ \o b.lines]
       /\ cairoValue' = [cairoValue EXCEPT ![c] = b.value]
  /\ cairoPromise' = [cairoPromise EXCEPT ![c] = "resolved"]
  /\ pc' = [pc EXCEPT ![c] = "done"]
  /\ UNCHANGED <<CITIES, entry, cityCode, requests, result, thrown, logPromise>>
  /\ UNCHANGED extractVars

\* CairoRejected without the catch block: the transport's error escapes.
CairoRejectedEscapes(c) ==
  /\ pc[c] = "awaitingCairo"
  /\ \E msg \in FailuresAt(requests[c][Len(requests[c])]) :
       answer' = [answer EXCEPT ![c] = Rejected(AxiosError(c, msg))]
  /\ cairoPromise' = [cairoPromise EXCEPT ![c] = "rejected"]
  /\ pc' = [pc EXCEPT ![c] = "done"]
  /\ UNCHANGED <<CITIES, entry, cityCode, requests, result, thrown, logPromise,
                 console, cairoValue>>
  /\ UNCHANGED extractVars

\* getCairoWeather after its GET was rejected: the catch block logs the
\* error and the function returns nothing.
CairoRejected(c) ==
  /\ pc[c] = "awaitingCairo"
  /\ \E msg \in FailuresAt(requests[c][Len(requests[c])]) :
       LET e == AxiosError(c, msg) IN
       /\ answer' = [answer EXCEPT ![c] = Rejected(e)]
       /\ console' = [console EXCEPT ![c] = Append(@, Line("error", "ERROR", <<e>>, <<>>))]
  /\ cairoPromise' = [cairoPromise EXCEPT ![c] = "resolved"]
  /\ pc' = [pc EXCEPT ![c] = "done"]
  /\ UNCHANGED <<CITIES, entry, cityCode, requests, result, thrown, logPromise,
                 cairoValue>>
  /\ UNCHANGED extractVars

Init ==
  /\ CallInit
  /\ page = EmptyPage
  /\ parsed = <<>>
  /\ legacyParsed = <<>>

Next ==
  \/ \E c \in Calls, k \in CityInputs : CallFetchCityWeather(c, k)
  \/ \E c \in Calls, k \in CityInputs : CallLogWeatherForCity(c, k)
  \/ \E c \in Calls : GetFulfilled(c)
  \/ \E c \in Calls : GetRejected(c)
  \/ \E c \in Calls : LogReport(c)
  \/ \E c \in Calls : LogFailure(c)
  \/ \E c \in Calls : CallGetCairoWeather(c)
  \/ \E c \in Calls : CairoFulfilled(c)
  \/ \E c \in Calls : CairoRejected(c)

Spec == Init /\ [][Next]_vars

\* One call of parseWeatherData on the page.
Parse ==
  /\ parsed = <<>>
  /\ parsed' = <<parseWeatherData(page)>>
  /\ UNCHANGED <<page, legacyParsed>>
  /\ UNCHANGED callVars

InitExtract ==
  /\ CallInit
  /\ ExtractInit

\* The body of getCairoWeather run on the same page, as the response's
\* text, once parseWeatherData has returned.
ParseLegacy ==
  /\ parsed # <<>>
  /\ legacyParsed = <<>>
  /\ legacyParsed' = <<getCairoWeatherBody(0, TextData(page)).value>>
  /\ UNCHANGED <<page, parsed>>
  /\ UNCHANGED callVars

NextExtract == Parse \/ ParseLegacy

SpecExtract == InitExtract /\ [][NextExtract]_vars

\* ------------------------------------------------------------- properties

\* The call is one of fetchCityWeather, direct or through logWeatherForCity.
IsFetchCall(c) == entry[c] \in {"fetch", "log"}

Answered(c) == answer[c] # NoAnswer
AnswerOk(c) == Answered(c) /\ answer[c][1].ok
AnswerFailed(c) == Answered(c) /\ ~answer[c][1].ok

\* The entries of a call's console output with the given label.
Labelled(c, label) == {i \in 1..Len(console[c]) : console[c][i].label = label}
\* The entries of a call's console output that are report output.
ReportOutput(c) == {i \in 1..Len(console[c]) : console[c][i].stream = "log"}

\* The fetch or extraction stage of a logWeatherForCity call failed.
StageFailed(c) == entry[c] = "log" /\ thrown[c] # <<>>

\* C1: a call with a city identifier that is no key of the catalog issues no
\* GET: it fails with a lookup error before any network call.
C1_UnknownCityIssuesNoGet ==
  \A c \in Calls :
    (pc[c] # "idle" /\ cityCode[c] \notin DOMAIN CITIES) => requests[c] = <<>>

DayItems == IF page.carousel THEN page.items ELSE <<>>

\* C3: for a page with n forecast-day list items the weekList has min(n, 7)
\* entries, and entry k is the one of the item at position k.
C3_WeekListIsFirstSevenItems ==
  parsed # <<>> =>
    LET weekList == parsed[1].weekList
        n == Len(DayItems)
    IN  /\ Len(weekList) = Min(n, 7)
        /\ Len(weekList) <= 7
        /\ \A k \in 0..(Min(n, 7) - 1) :
             /\ weekList[k + 1] = extractDayDetails(DayItems[k + 1], k)
             /\ weekList[k + 1].temperature =
                  (IF DayItems[k + 1].anchor = k /\ DayItems[k + 1].temp # <<>>
                   THEN Trim(DayItems[k + 1].temp[1]) ELSE <<>>)

C3_Witness ==
  /\ parsed # <<>>
  /\ Len(DayItems) > 7
  /\ Len(parsed[1].weekList) = 7
  /\ \E k \in 1..7 : DayItems[k].temp # DayItems[1].temp

\* C4: in every report with a non-empty weekList, the first entry's highTemp
\* equals its lowTemp, whatever the temperature token.
C4_TodayHighEqualsLow ==
  (parsed # <<>> /\ parsed[1].weekList # <<>>) =>
    parsed[1].weekList[1].highTemp = parsed[1].weekList[1].lowTemp

C4_Witness ==
  /\ parsed # <<>>
  /\ parsed[1].weekList # <<>>
  /\ Len(parsed[1].weekList[1].temperature) > 3
  /\ parsed[1].weekList[1].lowTemp = SubSeq(parsed[1].weekList[1].temperature, 1, 3)

\* C5: for an entry at index i >= 1 with token t: both readings are empty when
\* t is empty; otherwise highTemp is the first 3 characters of t (all of t
\* when shorter) and lowTemp is the rest of t after them, or highTemp when
\* there is no rest.
C5_LaterDaysSplitToken ==
  parsed # <<>> =>
    \A i \in 2..Len(parsed[1].weekList) :
      LET e == parsed[1].weekList[i]
          t == e.temperature
      IN  IF t = <<>>
          THEN e.highTemp = <<>> /\ e.lowTemp = <<>>
          ELSE /\ e.highTemp = (IF Len(t) < 3 THEN t ELSE SubSeq(t, 1, 3))
               /\ e.lowTemp = (IF Len(t) > 3 THEN SubSeq(t, 4, Len(t)) ELSE e.highTemp)

C5_Witness ==
  /\ parsed # <<>>
  /\ Len(parsed[1].weekList) >= 2
  /\ Len(parsed[1].weekList[2].temperature) = 3
  /\ parsed[1].weekList[2].lowTemp = parsed[1].weekList[2].temperature

\* C6: the city is the text before the first separator of the trimmed text of
\* the location-name element, the whole trimmed text when there is no
\* separator, and empty when there is no element.
C6_CityIsTextBeforeFirstSeparator ==
  parsed # <<>> =>
    LET city == parsed[1].city IN
    IF page.loc = <<>> THEN city = <<>>
    ELSE LET t == Trim(page.loc[1])
             hits == {i \in 1..(Len(t) - 2) :
                        t[i] = " " /\ t[i + 1] = "-" /\ t[i + 2] = " "}
         IN  IF hits = {} THEN city = t
             ELSE \E i \in hits :
                    /\ \A j \in hits : i <= j
                    /\ city = SubSeq(t, 1, i - 1)

C6_Witness ==
  /\ parsed # <<>>
  /\ page.loc # <<>>
  /\ Cardinality(Occurrences(Trim(page.loc[1]), Separator)) = 2
  /\ parsed[1].city = <<"L">>

\* C7: extraction is total: on every page the call returns a report, and a
\* field whose anchor is absent is empty (no location-name element: no city;
\* no carousel list: no entries; no title, description or temperature
\* sub-element: that field of the entry is empty).
C7_ExtractionTotalWithEmptyFields ==
  /\ parsed = <<>> => ENABLED Parse
  /\ parsed # <<>> =>
       /\ (page.loc = <<>> => parsed[1].city = <<>>)
       /\ (~page.carousel => parsed[1].weekList = <<>>)
       /\ \A k \in 1..Len(parsed[1].weekList) :
            /\ page.items[k].title = <<>> => parsed[1].weekList[k].day = <<>>
            /\ page.items[k].desc = <<>> => parsed[1].weekList[k].shortForecast = <<>>
            /\ page.items[k].temp = <<>> =>
                 /\ parsed[1].weekList[k].temperature = <<>>
                 /\ parsed[1].weekList[k].highTemp = <<>>
                 /\ parsed[1].weekList[k].lowTemp = <<>>

C7_Witness ==
  /\ parsed # <<>>
  /\ page.loc = <<>>
  /\ ~page.carousel
  /\ page.items # <<>>
  /\ parsed[1] = [city |-> <<>>, weekList |-> <<>>]

\* C8: when the GET of a call fails, the call logs the error once under the
\* network-error label, rejects with the transport's error, has issued the
\* one GET only, and returns no report.
C8_FailedGetLoggedOnceAndRethrown ==
  \A c \in Calls :
    (IsFetchCall(c) /\ AnswerFailed(c)) =>
      /\ Cardinality(Labelled(c, "Network Error:")) = 1
      /\ \A i \in Labelled(c, "Network Error:") :
           console[c][i] = Line("error", "Network Error:", <<answer[c][1].error>>, <<>>)
      /\ Labelled(c, "Parsing Error:") = {}
      /\ thrown[c] = <<answer[c][1].error>>
      /\ Len(requests[c]) = 1
      /\ result[c] = <<>>

C8_Witness ==
  \E c \in Calls :
    /\ AnswerFailed(c)
    /\ entry[c] = "fetch"
    /\ cityCode[c] \in DOMAIN CITIES
    /\ pc[c] = "threw"

\* C9: a call requests the base URL followed by the catalog code of its city
\* identifier; it extracts only after the GET has returned a success
\* response; and once the transport has answered it has exactly one outcome,
\* a report or an error, and none before.
C9_LinearOrderOneOutcome ==
  \A c \in Calls :
    (IsFetchCall(c) \/ pc[c] = "idle") =>
      /\ (pc[c] # "idle" /\ cityCode[c] \in DOMAIN CITIES) =>
           requests[c] = <<BBC_WEATHER_BASE_URL \o CITIES_TABLE[cityCode[c]]>>
      /\ pc[c] = "idle" => (requests[c] = <<>> /\ ~Answered(c))
      /\ result[c] # <<>> => AnswerOk(c)
      /\ ~(result[c] # <<>> /\ thrown[c] # <<>>)
      /\ Answered(c) <=> (result[c] # <<>> \/ thrown[c] # <<>>)
      /\ pc[c] = "awaiting" <=> (requests[c] # <<>> /\ ~Answered(c))

C9_Witness ==
  /\ \E c \in Calls : pc[c] = "returned" /\ cityCode[c] = "london"
                      /\ result[c] # <<>>
  /\ \E c \in Calls : pc[c] = "threw" /\ cityCode[c] = "cairo" /\ AnswerOk(c)

\* C10: under every interleaving, each call that returns a report returns the
\* report extracted from its own city's page, as it does when run alone, and
\* the catalog is unchanged.
C10_ConcurrentCallsIndependent ==
  /\ CITIES = CITIES_TABLE
  /\ \A c \in Calls :
       result[c] # <<>> =>
         /\ cityCode[c] \in CityKeys
         /\ answer[c][1].data = TextData(SitePage(CITIES_TABLE[cityCode[c]]))
         /\ result[c][1] = parseWeatherData(SitePage(CITIES_TABLE[cityCode[c]]))

C10_Witness ==
  \E c \in Calls, d \in Calls :
    /\ c # d
    /\ cityCode[c] = "cairo" /\ cityCode[d] = "newYork"
    /\ result[c] # <<>> /\ result[d] # <<>>
    /\ result[c] # result[d]

\* The call is one of the legacy getCairoWeather.
IsCairoCall(c) == entry[c] = "legacy"

EmptyEntry ==
  [day |-> <<>>, shortForecast |-> <<>>, temperature |-> <<>>,
   highTemp |-> <<>>, lowTemp |-> <<>>]

\* C12: the entry of the item at position i reads its day, forecast and
\* temperature from the sub-elements under that item's anchor of index i; an
\* item whose anchor carries another index, or that has no anchor, still has
\* its entry, with all five fields empty.
C12_FieldsReadUnderOwnIndexAnchor ==
  parsed # <<>> =>
    /\ Len(parsed[1].weekList) = Min(Len(DayItems), 7)
    /\ \A k \in 1..Len(parsed[1].weekList) :
         LET item == DayItems[k]
             e == parsed[1].weekList[k]
         IN  IF item.anchor = k - 1
             THEN /\ e.day = (IF item.title = <<>> THEN <<>> ELSE Trim(item.title[1]))
                  /\ e.shortForecast =
                       (IF item.desc = <<>> THEN <<>> ELSE Trim(item.desc[1]))
                  /\ e.temperature =
                       (IF item.temp = <<>> THEN <<>> ELSE Trim(item.temp[1]))
             ELSE e = EmptyEntry

C12_Witness ==
  /\ parsed # <<>>
  /\ Len(DayItems) = 2
  /\ DayItems[1].anchor = 0 /\ DayItems[1].temp # <<>>
  /\ DayItems[2].anchor = 2
  /\ DayItems[2].title # <<>> /\ DayItems[2].desc # <<>> /\ DayItems[2].temp # <<>>
  /\ Len(parsed[1].weekList) = 2
  /\ parsed[1].weekList[1].temperature # <<>>
  /\ parsed[1].weekList[2] = EmptyEntry

\* The entries of a call's console output that handleError wrote.
Handled(c) ==
  Labelled(c, "Network Error:") \cup Labelled(c, "Parsing Error:")
    \cup Labelled(c, "Unknown Error:")

\* C13: a fetchCityWeather call that fails has logged exactly one entry under
\* one of the three labels, before rethrowing the error it logged; an Error
\* raised while parsing the response is logged under the parsing-error
\* label, never the network-error label.
C13_ParseErrorLoggedOnceAndRethrown ==
  \A c \in Calls :
    (IsFetchCall(c) /\ thrown[c] # <<>>) =>
      /\ Handled(c) = {1}
      /\ console[c][1].errors = thrown[c]
      /\ console[c][1].stream = "error"
      /\ AnswerOk(c) =>
           /\ Labelled(c, "Parsing Error:") = {1}
           /\ Labelled(c, "Network Error:") = {}
           /\ thrown[c] = <<PlainError(c, "cheerio.load() expects a string")>>
      /\ AnswerFailed(c) => Labelled(c, "Network Error:") = {1}

C13_Witness ==
  \E c \in Calls :
    /\ IsFetchCall(c)
    /\ AnswerOk(c)
    /\ ~answer[c][1].data.isText
    /\ thrown[c] # <<>>
    /\ console[c][1].label = "Parsing Error:"

\* C14: the promise of logWeatherForCity never rejects and is resolved once
\* the call has ended, whatever the fetch and the extraction did; for a
\* report with an empty weekList the full report is printed, no summary, and
\* the failure is then logged.
C14_LogPromiseAlwaysResolves ==
  \A c \in Calls :
    entry[c] = "log" =>
      /\ logPromise[c] \in {"pending", "resolved"}
      /\ pc[c] \in {"returned", "threw"} => ENABLED (LogReport(c) \/ LogFailure(c))
      /\ pc[c] = "done" =>
           /\ logPromise[c] = "resolved"
           /\ (result[c] # <<>> /\ result[c][1].weekList = <<>>) =>
                /\ Len(console[c]) = 2
                /\ console[c][1] =
                     Line("log", "Weather Report:", <<>>, <<result[c][1]>>)
                /\ console[c][2].stream = "error"
                /\ console[c][2].label = "Failed to fetch weather for"

C14_Witness ==
  \E c \in Calls :
    /\ entry[c] = "log"
    /\ pc[c] = "done"
    /\ result[c] # <<>>
    /\ result[c][1].weekList = <<>>
    /\ logPromise[c] = "resolved"

\* C15: on a page with at least one forecast-day item, getCairoWeather's
\* inline extraction yields the report parseWeatherData yields; on a page
\* with none, parseWeatherData yields a report with an empty weekList and
\* getCairoWeather yields undefined.
C15_LegacyExtractionAgrees ==
  (parsed # <<>> /\ legacyParsed # <<>>) =>
    IF DayItems # <<>>
    THEN legacyParsed[1] = <<parsed[1]>>
    ELSE /\ legacyParsed[1] = <<>>
         /\ parsed[1].weekList = <<>>

C15_Witness ==
  /\ parsed # <<>>
  /\ legacyParsed # <<>>
  /\ Len(DayItems) = 2
  /\ legacyParsed[1] = <<parsed[1]>>
  /\ Len(parsed[1].weekList[1].temperature) > 3
  /\ Len(parsed[1].weekList[2].temperature) > 3
  /\ parsed[1].weekList[2].lowTemp # parsed[1].weekList[2].highTemp

====
